---- MODULE Spec2Model ----
(***************************************************************************)
(* URL shortener backend: the Express handlers of routes/links.ts and      *)
(* routes/redirect.ts running concurrently over one SQLite store (tables   *)
(* Link and Click).  A handler is cut into steps at its awaits: every      *)
(* store call is one atomic step, the synchronous code before an await     *)
(* belongs to the step that precedes it.                                   *)
(*                                                                         *)
(* Instants.  A JavaScript Date / a DATETIME column holds milliseconds     *)
(* since the epoch.  Those numbers exceed 32-bit integers, so an instant   *)
(* is kept in mixed radix as                                               *)
(* [day |-> d, ms |-> m], standing for d * 86400000 + m, 0 <= m < MsPerDay.*)
(* A string is a sequence of one-character strings.                        *)
(***************************************************************************)
EXTENDS Integers, Sequences, FiniteSets, TLC

\* ---------------------------------------------------------------- bounds
NumProcs == 2        \* requests in flight at the same time
MaxLinks == 2        \* Link rows the store may hold
MaxClicks == 2       \* Click rows the store may hold
MaxDay == 1          \* the clock runs over the days 0..MaxDay
SeedLinks == 1       \* the sample links the seed script creates (3 in the script)
SeedDays == 2        \* the days it generates clicks for (7 in the script)
SeedClicksPerDay == 1   \* the clicks of each day's pattern (2 to 25 in the script)
MaxFetches == 2      \* fetchAnalytics calls of one page awaiting their responses

\* ------------------------------------------------------ program constants
maxRetries == 3
SlugLen == 7
MsPerSecond == 1000
SecondsPerDay == 86400
MsPerDay == 86400000
MaxSlugLen == 64
DefaultDays == 30

Procs == 1..NumProcs

\* ------------------------------------------------------------- instants
EndOfDayMs == MsPerDay - 1

TimesOfDay == {0, EndOfDayMs}

Instants == [day : 0..MaxDay, ms : TimesOfDay]

DateLE(a, b) == a.day < b.day \/ (a.day = b.day /\ a.ms <= b.ms)

DateGT(a, b) == ~DateLE(a, b)

\* Date.prototype.toISOString: "YYYY-MM-DDTHH:mm:ss.sssZ", kept as the
\* calendar date, the second of the day and the millisecond fraction.
toISOString(d) ==
    [date |-> d.day, sec |-> d.ms \div MsPerSecond, milli |-> d.ms % MsPerSecond]

\* new Date(isoString)
NewDate(s) == [day |-> s.date, ms |-> s.sec * MsPerSecond + s.milli]

\* ------------------------------------------------------------------ slugs
BASE62_CHARS ==
    << "0","1","2","3","4","5","6","7","8","9",
       "A","B","C","D","E","F","G","H","I","J","K","L","M",
       "N","O","P","Q","R","S","T","U","V","W","X","Y","Z",
       "a","b","c","d","e","f","g","h","i","j","k","l","m",
       "n","o","p","q","r","s","t","u","v","w","x","y","z" >>

\* the random bytes crypto.randomBytes may deliver, one value per draw
ByteChoices == {0, 1, 62}

RandomBytes == {[i \in 1..SlugLen |-> b] : b \in ByteChoices}

randomSlug(bytes) ==
    [i \in 1..SlugLen |-> BASE62_CHARS[(bytes[i] % Len(BASE62_CHARS)) + 1]]

\* ------------------------------------------------------------ validators
SlugAlphabet == {BASE62_CHARS[i] : i \in 1..Len(BASE62_CHARS)} \cup {"_", "-"}

\* fault variant: /^[A-Za-z0-9_-]+$/, no upper limit on the length
SlugRegexNoMax(s) ==
    /\ Len(s) >= 1
    /\ \A i \in 1..Len(s) : s[i] \in SlugAlphabet

\* /^[A-Za-z0-9_-]{1,64}$/
SlugRegex(s) ==
    /\ Len(s) >= 1
    /\ Len(s) <= MaxSlugLen
    /\ \A i \in 1..Len(s) : s[i] \in SlugAlphabet

\* z.url() followed by the protocol refinement.  A URL string is kept as
\* its parsed protocol ("" when the string does not parse as a URL) and
\* the rest of the string.
UrlOk(u) == u.protocol # "" /\ (u.protocol = "http:" \/ u.protocol = "https:")

createLinkSchema(body) ==
    /\ UrlOk(body.targetUrl)
    /\ ("slug" \in DOMAIN body => SlugRegex(body.slug))

\* z.iso.datetime(): the fields of the string must be in range
IsoDatetime(s) ==
    /\ s.sec >= 0 /\ s.sec < SecondsPerDay
    /\ s.milli >= 0 /\ s.milli < MsPerSecond

\* fault variant: to is not validated
dateRangeSchemaFromOnly(query) ==
    "from" \in DOMAIN query => IsoDatetime(query.from)

\* z.object({from: z.iso.datetime().optional(), to: z.iso.datetime().optional()})
dateRangeSchema(query) ==
    /\ ("from" \in DOMAIN query => IsoDatetime(query.from))
    /\ ("to" \in DOMAIN query => IsoDatetime(query.to))

\* ----------------------------------------------------------------- inputs
Url1 == [protocol |-> "https:", rest |-> "//example.com/x"]
Url2 == [protocol |-> "http:", rest |-> "//example.com/y"]
UrlJs == [protocol |-> "javascript:", rest |-> "alert(1)"]

CustomSlugs == { <<"a">>, <<"0","0","0","0","0","0","0">>, <<"a"," ">> }

Bodies ==
    [targetUrl : {Url1}] \cup [targetUrl : {Url1}, slug : CustomSlugs]
                         \cup [targetUrl : {UrlJs}]

Headers == {<< >>, [h \in {"user-agent"} |-> "curl"]}

RequestSlugs == {<<"a">>, <<"b">>, randomSlug([i \in 1..SlugLen |-> 0])}

\* the instants analytics requests name: the end of day 0 and the start of
\* the last day, so that a range bound falls inside a day that has clicks
QueryInstants == {[day |-> 0, ms |-> EndOfDayMs], [day |-> MaxDay, ms |-> 0]}

IsoStrings ==
    {toISOString(d) : d \in QueryInstants} \cup {[date |-> 0, sec |-> 90000, milli |-> 0]}

Queries ==
    {<< >>} \cup [from : IsoStrings] \cup [to : IsoStrings]
            \cup [from : IsoStrings, to : IsoStrings]

\* --------------------------------------------------------------- responses
\* middleware/error.ts: a thrown value without status / code gets the
\* defaults (an absent field is kept as 0 or "")
errorHandler(err) ==
    [status  |-> IF err.status # 0 THEN err.status ELSE 500,
     code    |-> IF err.code # "" THEN err.code ELSE "INTERNAL",
     message |-> IF err.message # "" THEN err.message ELSE "Unexpected error"]

ValidationError(msg) ==
    [status |-> 400, code |-> "VALIDATION_ERROR", message |-> msg]

NotFoundError == [status |-> 404, code |-> "NOT_FOUND", message |-> "Link not found"]

SlugTaken == [status |-> 409, code |-> "SLUG_TAKEN", message |-> "Slug already exists"]

RetriesExhausted ==
    [status |-> 500, code |-> "INTERNAL",
     message |-> "Unable to generate unique slug after multiple attempts"]

\* ------------------------------------------------------------------ state
VARIABLES
    links,        \* table Link: rows [id, slug, targetUrl, createdAt]
    clicks,       \* table Click: rows [id, linkId, tsUtc, userAgent]
    nextLinkId,   \* ids handed out so far (cuid() never repeats)
    nextClickId,
    now,          \* the server clock
    proc          \* the requests in flight, one record per slot

vars == <<links, clicks, nextLinkId, nextClickId, now, proc>>

Idle == [pc |-> "idle"]

Slugs(ls) == {l.slug : l \in ls}

Ids(ls) == {l.id : l \in ls}

InFlight(op) == Cardinality({p \in Procs : proc[p].pc # "idle" /\ proc[p].pc # "done"
                                            /\ proc[p].op = op})

Init ==
    /\ links = {}
    /\ clicks = {}
    /\ nextLinkId = 1
    /\ nextClickId = 1
    /\ now = [day |-> 0, ms |-> 0]
    /\ proc = [p \in Procs |-> Idle]

\* ------------------------------------------------------------------ clock
Tick ==
    /\ \E t \in Instants : DateGT(t, now) /\ now' = t
    /\ UNCHANGED <<links, clicks, nextLinkId, nextClickId, proc>>

\* ------------------------------------------------------------ create link
\* fault variant: the flag is never set
wasSlugProvidedNever(body) == FALSE

\* const wasSlugProvided = !!userSlug
wasSlugProvided(body) == "slug" \in DOMAIN body

\* POST /api/v1/links up to the first await: validation and the choice of
\* the slug (userSlug is the empty string when the body has no slug).
\* generated logs the values randomSlug() has returned to this
\* request, attempts the prisma.link.create calls it has made, body the
\* request body.
CreateLink(p, body, bytes) ==
    /\ proc[p].pc = "idle"
    /\ Cardinality(links) + InFlight("create") < MaxLinks
    /\ IF ~createLinkSchema(body)
       THEN proc' = [proc EXCEPT ![p] =
                [pc |-> "done", op |-> "create", body |-> body,
                 resp |-> errorHandler(ValidationError("Invalid request data"))]]
       ELSE LET supplied == "slug" \in DOMAIN body
            IN proc' = [proc EXCEPT ![p] =
                [pc |-> "insert", op |-> "create", body |-> body,
                 targetUrl |-> body.targetUrl,
                 userSlug |-> IF supplied THEN body.slug ELSE << >>,
                 slug |-> IF supplied THEN body.slug ELSE randomSlug(bytes),
                 wasSlugProvided |-> wasSlugProvided(body), retries |-> 0,
                 generated |-> IF supplied THEN << >> ELSE <<randomSlug(bytes)>>,
                 attempts |-> << >>]]
    /\ UNCHANGED <<links, clicks, nextLinkId, nextClickId, now>>

\* fault variant: the table has no unique index on slug
SlugConflictNoIndex(ls, slug) == FALSE

\* fault variant: a read-then-write check that misses the newest row
SlugConflictStale(ls, slug) ==
    slug \in Slugs({l \in ls : \E m \in ls : m.id > l.id})

\* the unique index Link_slug_key: the insert fails with P2002 when a row
\* with the slug exists
SlugConflict(ls, slug) == slug \in Slugs(ls)

\* fault variant: retries <= maxRetries
CanRetryOffByOne(retries) == retries <= maxRetries

\* if (retries < maxRetries)
CanRetry(retries) == retries < maxRetries

\* fault variant: the retry keeps the slug that collided
NextSlugStale(slug, bytes) == slug

\* slug = randomSlug() of the retry branch
NextSlug(slug, bytes) == randomSlug(bytes)

\* fault variant: an upsert keyed by the target, replacing the row that has it
linkUpsert(ls, link) == {l \in ls : l.targetUrl # link.targetUrl} \cup {link}

\* prisma.link.create: one row more
linkCreate(ls, link) == ls \cup {link}

\* fault variant: INSERT OR REPLACE, the row holding the slug is replaced
insertOrReplace(ls, link) == {l \in ls : l.slug # link.slug} \cup {link}

\* the table after prisma.link.create has resolved or has been rejected
\* with P2002: a rejected insert writes nothing
insertOrReject(ls, link) ==
    IF SlugConflict(ls, link.slug) THEN ls ELSE linkCreate(ls, link)

\* one pass of the while loop: prisma.link.create and what follows it
InsertLink(p, bytes) ==
    /\ proc[p].pc = "insert"
    /\ proc[p].retries <= maxRetries
    /\ LET r == proc[p]
           conflict == SlugConflict(links, r.slug)
           link == [id |-> nextLinkId, slug |-> r.slug,
                    targetUrl |-> r.targetUrl, createdAt |-> now]
           log == Append(r.attempts, [slug |-> r.slug, conflict |-> conflict])
           finished == [pc |-> "done", op |-> "create", userSlug |-> r.userSlug,
                        wasSlugProvided |-> r.wasSlugProvided,
                        generated |-> r.generated, attempts |-> log]
       IN /\ links' = insertOrReject(links, link)
          /\ IF ~conflict
             THEN /\ nextLinkId' = nextLinkId + 1
                  /\ proc' = [proc EXCEPT ![p] =
                       finished @@ ("resp" :> [status |-> 201, link |-> link])]
             ELSE /\ UNCHANGED nextLinkId
                  /\ IF r.wasSlugProvided
                     THEN proc' = [proc EXCEPT ![p] = finished @@ ("resp" :> SlugTaken)]
                     ELSE IF CanRetry(r.retries)
                     THEN proc' = [proc EXCEPT ![p] =
                           [r EXCEPT !.slug = NextSlug(r.slug, bytes),
                                     !.retries = r.retries + 1,
                                     !.generated = Append(r.generated, randomSlug(bytes)),
                                     !.attempts = log]]
                     ELSE proc' = [proc EXCEPT ![p] =
                           finished @@ ("resp" :> RetriesExhausted)]
    /\ UNCHANGED <<clicks, nextClickId, now>>

\* prisma.link.create is rejected with an error other than P2002 (the
\* database cannot be reached): throw dbError, next(error)
InsertLinkFails(p) ==
    /\ proc[p].pc = "insert"
    /\ LET r == proc[p]
       IN proc' = [proc EXCEPT ![p] =
            [pc |-> "done", op |-> "create", userSlug |-> r.userSlug,
             wasSlugProvided |-> r.wasSlugProvided,
             generated |-> r.generated, attempts |-> r.attempts,
             resp |-> errorHandler([status |-> 0, code |-> "P1001",
                                    message |-> "Can't reach database server"])]]
    /\ UNCHANGED <<links, clicks, nextLinkId, nextClickId, now>>

\* --------------------------------------------------------------- redirect
\* fault variant: an absent header is stored as null
UserAgentOrNull(headers) ==
    IF "user-agent" \in DOMAIN headers THEN headers["user-agent"] ELSE "null"

\* req.headers['user-agent'] ?? ''
UserAgentOf(headers) ==
    IF "user-agent" \in DOMAIN headers THEN headers["user-agent"] ELSE ""

\* fault variant: CURRENT_TIMESTAMP of the database, whole seconds only
TsDefaultSeconds(clock) ==
    [day |-> clock.day, ms |-> (clock.ms \div MsPerSecond) * MsPerSecond]

\* ts_utc when the insert names none: the clock at the insert
TsDefault(clock) == clock

\* fault variant: the ids of two rows can be the same
ClickIdRepeats(n) == 1

\* the primary key of the n-th Click row inserted (cuid() never repeats)
ClickId(n) == n

\* fault variant: the where clause is dropped, any row matches
findBySlugAny(ls, slug) == ls

\* prisma.link.findUnique({where: {slug}}): the rows with the slug (the
\* unique index leaves at most one)
findBySlug(ls, slug) == {l \in ls : l.slug = slug}

\* GET /r/:slug up to the second await: the lookup of the link
Redirect(p, slug, headers) ==
    /\ proc[p].pc = "idle"
    /\ Cardinality(clicks) + InFlight("redirect") < MaxClicks
    /\ LET found == findBySlug(links, slug)
       IN IF found = {}
          THEN proc' = [proc EXCEPT ![p] =
                  [pc |-> "done", op |-> "redirect", slug |-> slug, headers |-> headers,
                   resp |-> [status |-> 404, text |-> "Not found"]]]
          ELSE proc' = [proc EXCEPT ![p] =
                  [pc |-> "record", op |-> "redirect", slug |-> slug, headers |-> headers,
                   link |-> CHOOSE l \in found : TRUE,
                   userAgent |-> UserAgentOf(headers)]]
    /\ UNCHANGED <<links, clicks, nextLinkId, nextClickId, now>>

\* fault variant: an upsert keyed by the link, replacing its earlier click
UpsertClick(cs, click) == {c \in cs : c.linkId # click.linkId} \cup {click}

\* prisma.click.create: one row more
InsertClick(cs, click) == cs \cup {click}

\* prisma.click.create and the 302; the foreign key Click_linkId_fkey
\* rejects a click whose link is gone (P2003).  clickId logs the row the
\* request has inserted.
RecordClick(p) ==
    /\ proc[p].pc = "record"
    /\ LET r == proc[p]
           click == [id |-> ClickId(nextClickId), linkId |-> r.link.id,
                     tsUtc |-> TsDefault(now), userAgent |-> r.userAgent]
       IN IF r.link.id \in Ids(links)
          THEN /\ clicks' = InsertClick(clicks, click)
               /\ nextClickId' = nextClickId + 1
               /\ proc' = [proc EXCEPT ![p] =
                    [pc |-> "done", op |-> "redirect", slug |-> r.slug,
                     headers |-> r.headers, clickId |-> click.id,
                     resp |-> [status |-> 302, location |-> r.link.targetUrl]]]
          ELSE /\ UNCHANGED <<clicks, nextClickId>>
               /\ proc' = [proc EXCEPT ![p] =
                    [pc |-> "done", op |-> "redirect", slug |-> r.slug,
                     headers |-> r.headers,
                     resp |-> errorHandler([status |-> 0, code |-> "P2003",
                                            message |-> "Foreign key constraint failed"])]]
    /\ UNCHANGED <<links, nextLinkId, now>>

\* ------------------------------------------------------------- list links
\* the orders findMany({orderBy: {createdAt: 'desc'}}) may return the rows
\* in, as sequences of row ids: newest first, rows of equal createdAt in
\* any order
\* fault variant: orderBy createdAt 'asc'
RECURSIVE CreatedAtAsc(_)
CreatedAtAsc(ls) ==
    IF ls = {} THEN {<< >>}
    ELSE UNION { {<<l.id>> \o rest : rest \in CreatedAtAsc(ls \ {l})} :
                 l \in {x \in ls : \A y \in ls : DateLE(x.createdAt, y.createdAt)} }

RECURSIVE CreatedAtDesc(_)
CreatedAtDesc(ls) ==
    IF ls = {} THEN {<< >>}
    ELSE UNION { {<<l.id>> \o rest : rest \in CreatedAtDesc(ls \ {l})} :
                 l \in {x \in ls : \A y \in ls : DateLE(y.createdAt, x.createdAt)} }

\* GET /api/v1/links: the rows in the order the query returned them
List(p, order) ==
    /\ proc[p].pc = "idle"
    /\ order \in CreatedAtDesc(links)
    /\ proc' = [proc EXCEPT ![p] =
          [pc |-> "done", op |-> "list",
           resp |-> [status |-> 200,
                     links |-> [i \in 1..Len(order) |->
                                   CHOOSE l \in links : l.id = order[i]]]]]
    /\ UNCHANGED <<links, clicks, nextLinkId, nextClickId, now>>

\* -------------------------------------------------------------- analytics
\* fault variant: setUTCHours(0, 0, 0, 0) missing from the default from
normalizeRangeKeepsTime(range, clock) ==
    LET defaultTo == [day |-> clock.day, ms |-> EndOfDayMs]
        defaultFrom == [day |-> clock.day - DefaultDays, ms |-> clock.ms]
        fromDate == IF "from" \in DOMAIN range THEN NewDate(range.from) ELSE defaultFrom
        toDate == IF "to" \in DOMAIN range THEN NewDate(range.to) ELSE defaultTo
    IN IF DateGT(fromDate, toDate)
       THEN [ok |-> FALSE, message |-> "From date cannot be after to date"]
       ELSE [ok |-> TRUE, fromISO |-> toISOString(fromDate), toISO |-> toISOString(toDate)]

\* fault variant: a supplied from is ignored, the default always used
normalizeRangeIgnoresFrom(range, clock) ==
    LET defaultTo == [day |-> clock.day, ms |-> EndOfDayMs]
        defaultFrom == [day |-> clock.day - DefaultDays, ms |-> 0]
        fromDate == defaultFrom
        toDate == IF "to" \in DOMAIN range THEN NewDate(range.to) ELSE defaultTo
    IN IF DateGT(fromDate, toDate)
       THEN [ok |-> FALSE, message |-> "From date cannot be after to date"]
       ELSE [ok |-> TRUE, fromISO |-> toISOString(fromDate), toISO |-> toISOString(toDate)]

\* fault variant: bounds out of order are swapped instead of rejected
normalizeRangeSwaps(range, clock) ==
    LET defaultTo == [day |-> clock.day, ms |-> EndOfDayMs]
        defaultFrom == [day |-> clock.day - DefaultDays, ms |-> 0]
        fromDate == IF "from" \in DOMAIN range THEN NewDate(range.from) ELSE defaultFrom
        toDate == IF "to" \in DOMAIN range THEN NewDate(range.to) ELSE defaultTo
    IN IF DateGT(fromDate, toDate)
       THEN [ok |-> TRUE, fromISO |-> toISOString(toDate), toISO |-> toISOString(fromDate)]
       ELSE [ok |-> TRUE, fromISO |-> toISOString(fromDate), toISO |-> toISOString(toDate)]

\* fault variant: the default from is 30 days before to
normalizeRangeFromTo(range, clock) ==
    LET defaultTo == [day |-> clock.day, ms |-> EndOfDayMs]
        toDate == IF "to" \in DOMAIN range THEN NewDate(range.to) ELSE defaultTo
        defaultFrom == [day |-> toDate.day - DefaultDays, ms |-> 0]
        fromDate == IF "from" \in DOMAIN range THEN NewDate(range.from) ELSE defaultFrom
    IN IF DateGT(fromDate, toDate)
       THEN [ok |-> FALSE, message |-> "From date cannot be after to date"]
       ELSE [ok |-> TRUE, fromISO |-> toISOString(fromDate), toISO |-> toISOString(toDate)]

\* lib/dates.ts.  The result is [ok |-> TRUE, fromISO, toISO] or, when the
\* function throws, [ok |-> FALSE, message] with the message of the Error.
\* clock is the value of new Date().
normalizeRange(range, clock) ==
    LET defaultTo == [day |-> clock.day, ms |-> EndOfDayMs]
        defaultFrom == [day |-> clock.day - DefaultDays, ms |-> 0]
        fromDate == IF "from" \in DOMAIN range THEN NewDate(range.from) ELSE defaultFrom
        toDate == IF "to" \in DOMAIN range THEN NewDate(range.to) ELSE defaultTo
    IN IF DateGT(fromDate, toDate)
       THEN [ok |-> FALSE, message |-> "From date cannot be after to date"]
       ELSE [ok |-> TRUE, fromISO |-> toISOString(fromDate), toISO |-> toISOString(toDate)]

\* a call of normalizeRange on a parsed range, with its result
Normalize(p, range) ==
    /\ proc[p].pc = "idle"
    /\ proc' = [proc EXCEPT ![p] =
          [pc |-> "done", op |-> "normalize", range |-> range, clock |-> now,
           result |-> normalizeRange(range, now)]]
    /\ UNCHANGED <<links, clicks, nextLinkId, nextClickId, now>>

\* fault variant: no existence check
ensureLinkExistsSkipped(ls, id) == TRUE

\* ensureLinkExists: prisma.link.findUnique({where:{id}})
ensureLinkExists(ls, id) == \E l \in ls : l.id = id

\* GET /:id/analytics/summary and /:id/analytics/daily up to the second
\* await: the existence check, parseDateRange, normalizeRange.  day logs
\* the UTC day the request was handled on.
Analytics(p, op, id, query) ==
    /\ proc[p].pc = "idle"
    /\ IF ~ensureLinkExists(links, id)
       THEN proc' = [proc EXCEPT ![p] =
               [pc |-> "done", op |-> op, id |-> id, query |-> query, day |-> now.day,
                resp |-> errorHandler(NotFoundError)]]
       ELSE IF ~dateRangeSchema(query)
       THEN proc' = [proc EXCEPT ![p] =
               [pc |-> "done", op |-> op, id |-> id, query |-> query, day |-> now.day,
                resp |-> errorHandler(ValidationError("Invalid date range parameters"))]]
       ELSE LET n == normalizeRange(query, now)
            IN IF ~n.ok
               THEN proc' = [proc EXCEPT ![p] =
                       [pc |-> "done", op |-> op, id |-> id, query |-> query, day |-> now.day,
                        resp |-> errorHandler([status |-> 0, code |-> "",
                                               message |-> n.message])]]
               ELSE proc' = [proc EXCEPT ![p] =
                       [pc |-> "query", op |-> op, id |-> id, query |-> query,
                        day |-> now.day, from |-> NewDate(n.fromISO), to |-> NewDate(n.toISO)]]
    /\ UNCHANGED <<links, clicks, nextLinkId, nextClickId, now>>

\* fault variant: the filter on linkId is missing
InRangeAnyLink(c, id, from, to) ==
    /\ DateLE(from, c.tsUtc)
    /\ DateLE(c.tsUtc, to)

\* fault variant: lt instead of lte
InRangeExclusive(c, id, from, to) ==
    /\ c.linkId = id
    /\ DateLE(from, c.tsUtc)
    /\ DateLE(c.tsUtc, to)
    /\ c.tsUtc # to

\* where: { linkId: id, tsUtc: { gte: from, lte: to } }
InRange(c, id, from, to) ==
    /\ c.linkId = id
    /\ DateLE(from, c.tsUtc)
    /\ DateLE(c.tsUtc, to)

\* fault variant: COUNT(DISTINCT ts_utc)
CountClicksDistinct(cs, id, from, to) ==
    Cardinality({c.tsUtc : c \in {d \in cs : InRange(d, id, from, to)}})

\* prisma.click.count
CountClicks(cs, id, from, to) == Cardinality({c \in cs : InRange(c, id, from, to)})

Summary(p) ==
    /\ proc[p].pc = "query"
    /\ proc[p].op = "summary"
    /\ LET r == proc[p]
       IN proc' = [proc EXCEPT ![p] =
            [pc |-> "done", op |-> "summary", id |-> r.id, query |-> r.query,
             day |-> r.day, from |-> r.from, to |-> r.to,
             resp |-> [status |-> 200, total |-> CountClicks(clicks, r.id, r.from, r.to)]]]
    /\ UNCHANGED <<links, clicks, nextLinkId, nextClickId, now>>

\* fault variant: date(ts_utc, 'unixepoch'), the division by 1000 missing
UnixSecondsFromMs(t) == t.day * MsPerDay + t.ms

\* date(ts_utc/1000, 'unixepoch'): the column holds epoch milliseconds
UnixSeconds(t) == t.day * SecondsPerDay + t.ms \div MsPerSecond

SqlDate(t) == UnixSeconds(t) \div SecondsPerDay

\* fault variant: ORDER BY .. DESC
RECURSIVE OrderByDayDesc(_, _)
OrderByDayDesc(days, count) ==
    IF days = {} THEN << >>
    ELSE LET d == CHOOSE x \in days : \A y \in days : x >= y
         IN <<[day |-> d, count |-> count[d]]>> \o OrderByDayDesc(days \ {d}, count)

\* ORDER BY: the rows of the given days, smallest day first
RECURSIVE OrderByDay(_, _)
OrderByDay(days, count) ==
    IF days = {} THEN << >>
    ELSE LET d == CHOOSE x \in days : \A y \in days : x <= y
         IN <<[day |-> d, count |-> count[d]]>> \o OrderByDay(days \ {d}, count)

\* fault variant: the WHERE clause lacks linkId = id
DailyQueryAnyLink(cs, id, from, to) ==
    LET rows == {c \in cs : DateLE(from, c.tsUtc) /\ DateLE(c.tsUtc, to)}
        days == {SqlDate(c.tsUtc) : c \in rows}
        count == [d \in days |-> Cardinality({c \in rows : SqlDate(c.tsUtc) = d})]
    IN OrderByDay(days, count)

\* fault variant: the server fills the days of the range that have no click
DailyQueryGapFilled(cs, id, from, to) ==
    LET rows == {c \in cs : InRange(c, id, from, to)}
        days == SqlDate(from)..SqlDate(to)
        count == [d \in days |-> Cardinality({c \in rows : SqlDate(c.tsUtc) = d})]
    IN OrderByDay(days, count)

\* SELECT date(..) AS day, COUNT(*) AS count FROM Click WHERE linkId = id
\* AND ts_utc BETWEEN from AND to GROUP BY date(..) ORDER BY date(..)
DailyQuery(cs, id, from, to) ==
    LET rows == {c \in cs : InRange(c, id, from, to)}
        days == {SqlDate(c.tsUtc) : c \in rows}
        count == [d \in days |-> Cardinality({c \in rows : SqlDate(c.tsUtc) = d})]
    IN OrderByDay(days, count)

Daily(p) ==
    /\ proc[p].pc = "query"
    /\ proc[p].op = "daily"
    /\ LET r == proc[p]
       IN proc' = [proc EXCEPT ![p] =
            [pc |-> "done", op |-> "daily", id |-> r.id, query |-> r.query,
             day |-> r.day, from |-> r.from, to |-> r.to,
             resp |-> [status |-> 200, body |-> DailyQuery(clicks, r.id, r.from, r.to)]]]
    /\ UNCHANGED <<links, clicks, nextLinkId, nextClickId, now>>

\* ------------------------------------------------------------ seed script
\* src/seed.ts, a process of its own over the same database.  Each await
\* is one step.
SAMPLE_LINKS ==
    << [slug |-> <<"d","e","m","o","-","g","i","t","h","u","b">>,
        targetUrl |-> [protocol |-> "https:", rest |-> "//github.com/features"]],
       [slug |-> <<"g","o","o","g","l","e">>,
        targetUrl |-> [protocol |-> "https:", rest |-> "//google.com"]],
       [slug |-> <<"s","t","a","c","k","-","o","v","e","r","f","l","o","w">>,
        targetUrl |-> [protocol |-> "https:", rest |-> "//stackoverflow.com"]] >>

\* the eight user agent strings, by the browser or tool they name
USER_AGENTS ==
    << "Chrome/Windows", "Chrome/Mac", "Chrome/Linux", "Safari/iPhone",
       "Safari/iPad", "Firefox/Android", "curl/8.0.1", "PostmanRuntime/7.32.3" >>

\* linkClickPatterns[slug][dayOffset], every count scaled to SeedClicksPerDay
clickPattern(slug, dayOffset) == SeedClicksPerDay

\* clickTime: targetDate is today moved back dayOffset days, then
\* setUTCHours(hour, minute, second, clickIndex % 1000)
clickTime(today, dayOffset, clickIndex, dayClickCount, slugLength) ==
    LET hour == (clickIndex * 24) \div dayClickCount
        minute == (clickIndex * 37 + slugLength * 11) % 60
        second == (clickIndex * 17 + slugLength * 7) % 60
    IN [day |-> today.day - dayOffset,
        ms |-> (((hour * 60) + minute) * 60 + second) * MsPerSecond + (clickIndex % 1000)]

\* prisma.link.count() and the branch on it (the script is started only
\* while at most MaxLinks link ids have been handed out)
SeedCount(p) ==
    /\ proc[p].pc = "idle"
    /\ nextLinkId <= MaxLinks + 1
    /\ proc' = [proc EXCEPT ![p] =
          [pc |-> IF Cardinality(links) > 0 THEN "clearClicks" ELSE "createLinks",
           op |-> "seed", createdLinks |-> << >>]]
    /\ UNCHANGED <<links, clicks, nextLinkId, nextClickId, now>>

\* prisma.click.deleteMany({})
SeedClearClicks(p) ==
    /\ proc[p].pc = "clearClicks"
    /\ clicks' = {}
    /\ proc' = [proc EXCEPT ![p].pc = "clearLinks"]
    /\ UNCHANGED <<links, nextLinkId, nextClickId, now>>

\* fault variant: the foreign key has no ON DELETE CASCADE and is not checked
CascadeNone(cs, remaining) == cs

\* ON DELETE CASCADE: the clicks that go with the deleted links
Cascade(cs, remaining) == {c \in cs : c.linkId \in Ids(remaining)}

\* prisma.link.deleteMany({})
SeedClearLinks(p) ==
    /\ proc[p].pc = "clearLinks"
    /\ links' = {}
    /\ clicks' = Cascade(clicks, {})
    /\ proc' = [proc EXCEPT ![p].pc = "createLinks"]
    /\ UNCHANGED <<nextLinkId, nextClickId, now>>

\* one pass of the loop over SAMPLE_LINKS; after the last pass today is
\* read from the clock and set to the end of the day (the store holds at
\* most MaxLinks rows)
SeedCreateLink(p) ==
    /\ proc[p].pc = "createLinks"
    /\ Cardinality(links) < MaxLinks
    /\ LET r == proc[p]
           linkData == SAMPLE_LINKS[Len(r.createdLinks) + 1]
           link == [id |-> nextLinkId, slug |-> linkData.slug,
                    targetUrl |-> linkData.targetUrl, createdAt |-> now]
           created == Append(r.createdLinks, link)
       IN IF SlugConflict(links, linkData.slug)
          THEN /\ UNCHANGED <<links, nextLinkId>>
               /\ proc' = [proc EXCEPT ![p] =
                    [pc |-> "done", op |-> "seed", resp |-> [exit |-> 1]]]
          ELSE /\ links' = linkCreate(links, link)
               /\ nextLinkId' = nextLinkId + 1
               /\ IF Len(created) < SeedLinks
                  THEN proc' = [proc EXCEPT ![p].createdLinks = created]
                  ELSE proc' = [proc EXCEPT ![p] =
                         [pc |-> "createClicks", op |-> "seed", createdLinks |-> created,
                          today |-> [day |-> now.day, ms |-> EndOfDayMs],
                          link |-> 1, dayOffset |-> 0, clickIndex |-> 0]]
    /\ UNCHANGED <<clicks, nextClickId, now>>

\* prisma.click.create({data: {linkId, tsUtc: clickTime, userAgent}}) and the
\* loop counters that follow it
SeedCreateClick(p) ==
    /\ proc[p].pc = "createClicks"
    /\ LET r == proc[p]
           link == r.createdLinks[r.link]
           dayClickCount == clickPattern(link.slug, r.dayOffset)
           click == [id |-> ClickId(nextClickId), linkId |-> link.id,
                     tsUtc |-> clickTime(r.today, r.dayOffset, r.clickIndex,
                                         dayClickCount, Len(link.slug)),
                     userAgent |-> USER_AGENTS[((r.clickIndex + Len(link.slug) * 3)
                                                 % Len(USER_AGENTS)) + 1]]
           lastClick == r.clickIndex + 1 >= dayClickCount
           lastDay == r.dayOffset + 1 >= SeedDays
           lastLink == r.link + 1 > Len(r.createdLinks)
       IN IF link.id \notin Ids(links)
          THEN /\ UNCHANGED <<clicks, nextClickId>>
               /\ proc' = [proc EXCEPT ![p] =
                    [pc |-> "done", op |-> "seed", resp |-> [exit |-> 1]]]
          ELSE /\ clicks' = clicks \cup {click}
               /\ nextClickId' = nextClickId + 1
               /\ proc' = [proc EXCEPT ![p] =
                    IF ~lastClick THEN [r EXCEPT !.clickIndex = r.clickIndex + 1]
                    ELSE IF ~lastDay
                    THEN [r EXCEPT !.clickIndex = 0, !.dayOffset = r.dayOffset + 1]
                    ELSE IF ~lastLink
                    THEN [r EXCEPT !.clickIndex = 0, !.dayOffset = 0, !.link = r.link + 1]
                    ELSE [pc |-> "preview", op |-> "seed"]]
    /\ UNCHANGED <<links, nextLinkId, now>>

\* the two prisma.click.count of the preview; the script ends
SeedPreview(p) ==
    /\ proc[p].pc = "preview"
    /\ proc' = [proc EXCEPT ![p] = [pc |-> "done", op |-> "seed", resp |-> [exit |-> 0]]]
    /\ UNCHANGED <<links, clicks, nextLinkId, nextClickId, now>>

\* ------------------------------------------------------- link detail page
\* frontend/src/pages/LinkDetailPage.tsx: one mounted page per slot, kept
\* as the record of its React state (error is "" for null) and of the
\* fetchAnalytics calls that await Promise.all, each with the dateRange it
\* built from the fromDate / toDate of its render.  A date input value
\* "YYYY-MM-DD" is kept as its day number.
dateRange(fromDate, toDate) ==
    [from |-> toISOString(NewDate([date |-> fromDate, sec |-> 0, milli |-> 0])),
     to   |-> toISOString(NewDate([date |-> toDate, sec |-> SecondsPerDay - 1,
                                   milli |-> MsPerSecond - 1]))]

\* what Promise.all([getSummary, getDaily]) settles with: the answers of
\* the two routes to the same id and range, or the first rejection
PromiseAll(ls, cs, clock, id, range) ==
    IF ~ensureLinkExists(ls, id)
    THEN [ok |-> FALSE, message |-> errorHandler(NotFoundError).message]
    ELSE IF ~dateRangeSchema(range)
    THEN [ok |-> FALSE,
          message |-> errorHandler(ValidationError("Invalid date range parameters")).message]
    ELSE LET n == normalizeRange(range, clock)
         IN IF ~n.ok
            THEN [ok |-> FALSE,
                  message |-> errorHandler([status |-> 0, code |-> "",
                                            message |-> n.message]).message]
            ELSE [ok |-> TRUE,
                  summary |-> CountClicks(cs, id, NewDate(n.fromISO), NewDate(n.toISO)),
                  daily |-> DailyQuery(cs, id, NewDate(n.fromISO), NewDate(n.toISO))]

\* fetchAnalytics up to its await: setLoading(true), setError(null) and the
\* two requests sent with the range of this render
fetchAnalytics(page, fromDate, toDate) ==
    [page EXCEPT !.loading = TRUE, !.error = "",
                 !.fetches = Append(page.fetches, dateRange(fromDate, toDate))]

\* the page is mounted: the initial state and the effect of the first render
OpenPage(p, id) ==
    /\ proc[p].pc = "idle"
    /\ LET fromDate == now.day - DefaultDays
           toDate == now.day
       IN proc' = [proc EXCEPT ![p] =
            fetchAnalytics([pc |-> "page", op |-> "detail", id |-> id,
                            totalClicks |-> 0, dailyData |-> << >>,
                            loading |-> TRUE, error |-> "",
                            fromDate |-> fromDate, toDate |-> toDate,
                            fetches |-> << >>],
                           fromDate, toDate)]
    /\ UNCHANGED <<links, clicks, nextLinkId, nextClickId, now>>

\* onChange of the From input: setFromDate, then the effect of the new render
ChangeFrom(p, day) ==
    /\ proc[p].pc = "page"
    /\ day # proc[p].fromDate
    /\ Len(proc[p].fetches) < MaxFetches
    /\ proc' = [proc EXCEPT ![p] =
          fetchAnalytics([proc[p] EXCEPT !.fromDate = day], day, proc[p].toDate)]
    /\ UNCHANGED <<links, clicks, nextLinkId, nextClickId, now>>

\* onChange of the To input
ChangeTo(p, day) ==
    /\ proc[p].pc = "page"
    /\ day # proc[p].toDate
    /\ Len(proc[p].fetches) < MaxFetches
    /\ proc' = [proc EXCEPT ![p] =
          fetchAnalytics([proc[p] EXCEPT !.toDate = day], proc[p].fromDate, day)]
    /\ UNCHANGED <<links, clicks, nextLinkId, nextClickId, now>>

\* the i-th pending call resumes after its await: setTotalClicks and
\* setDailyData, or setError in the catch, then setLoading(false)
FetchSettled(p, i) ==
    /\ proc[p].pc = "page"
    /\ i \in 1..Len(proc[p].fetches)
    /\ LET page == proc[p]
           settled == PromiseAll(links, clicks, now, page.id, page.fetches[i])
           rest == [j \in 1..(Len(page.fetches) - 1) |->
                       IF j < i THEN page.fetches[j] ELSE page.fetches[j + 1]]
       IN proc' = [proc EXCEPT ![p] =
            IF settled.ok
            THEN [page EXCEPT !.totalClicks = settled.summary,
                              !.dailyData = settled.daily,
                              !.loading = FALSE, !.fetches = rest]
            ELSE [page EXCEPT !.error = settled.message,
                              !.loading = FALSE, !.fetches = rest]]
    /\ UNCHANGED <<links, clicks, nextLinkId, nextClickId, now>>

\* the response has been sent; the slot is free again
Respond(p) ==
    /\ proc[p].pc = "done"
    /\ proc' = [proc EXCEPT ![p] = Idle]
    /\ UNCHANGED <<links, clicks, nextLinkId, nextClickId, now>>

\* ---------------------------------------------------------- specifications
\* The link registry: concurrent create-link requests (the clock stands
\* still: no claim about the registry reads createdAt).
NextRegistry ==
    \/ \E p \in Procs, body \in Bodies, bytes \in RandomBytes : CreateLink(p, body, bytes)
    \/ \E p \in Procs, bytes \in RandomBytes : InsertLink(p, bytes)
    \/ \E p \in Procs : Respond(p)

SpecRegistry == Init /\ [][NextRegistry]_vars

\* Click recording and analytics over the links two earlier create-link
\* requests have stored (a state SpecRegistry reaches).
StoredLinks ==
    { [id |-> 1, slug |-> <<"a">>, targetUrl |-> Url1,
       createdAt |-> [day |-> 0, ms |-> 0]],
      [id |-> 2, slug |-> randomSlug([i \in 1..SlugLen |-> 0]), targetUrl |-> Url2,
       createdAt |-> [day |-> 0, ms |-> 0]] }

\* the :id of an analytics request: the stored ids and one that is unknown
IdParams == {0} \cup Ids(StoredLinks)

InitAnalytics ==
    /\ links = StoredLinks
    /\ clicks = {}
    /\ nextLinkId = 3
    /\ nextClickId = 1
    /\ now = [day |-> 0, ms |-> 0]
    /\ proc = [p \in Procs |-> Idle]

\* the slot analytics requests arrive on and the slot redirects arrive on
Readers == {1}

Visitors == {2}

NextAnalytics ==
    \/ Tick
    \/ \E p \in Visitors, slug \in RequestSlugs : Redirect(p, slug, << >>)
    \/ \E p \in Procs : RecordClick(p)
    \/ \E p \in Readers, op \in {"summary", "daily"}, id \in IdParams, query \in Queries :
          Analytics(p, op, id, query)
    \/ \E p \in Procs : Summary(p)
    \/ \E p \in Procs : Daily(p)
    \/ \E p \in Procs : Respond(p)

SpecAnalytics == InitAnalytics /\ [][NextAnalytics]_vars

\* normalizeRange on its own: the clock values and the parsed ranges it is
\* called with (every string has passed dateRangeSchema)
NoonMs == MsPerDay \div 2

Clocks == [day : 0..MaxDay, ms : TimesOfDay \cup {NoonMs}]

RangeStrings ==
    {toISOString(d) :
        d \in QueryInstants \cup {[day |-> 0 - (DefaultDays + 1), ms |-> MsPerSecond + 1]}}

Ranges ==
    {<< >>} \cup [from : RangeStrings] \cup [to : RangeStrings]
            \cup [from : RangeStrings, to : RangeStrings]

InitNormalize ==
    /\ links = {}
    /\ clicks = {}
    /\ nextLinkId = 1
    /\ nextClickId = 1
    /\ now \in Clocks
    /\ proc = [p \in Procs |-> Idle]

NextNormalize ==
    \/ \E p \in Procs, range \in Ranges : Normalize(p, range)
    \/ \E p \in Procs : Respond(p)

SpecNormalize == InitNormalize /\ [][NextNormalize]_vars

\* Repeated reads: analytics requests on two slots over a store that no
\* request writes, while the clock runs.  The service has run for 30 days:
\* the links are that old and link 1 may hold a click of that day and one
\* of day 0.
ReadLinks ==
    {[l EXCEPT !.createdAt = [day |-> 0 - DefaultDays, ms |-> 0]] : l \in StoredLinks}

OldClick ==
    [id |-> 1, linkId |-> 1, tsUtc |-> [day |-> 0 - DefaultDays, ms |-> NoonMs],
     userAgent |-> ""]

NewClick ==
    [id |-> 2, linkId |-> 1, tsUtc |-> [day |-> 0, ms |-> 0], userAgent |-> ""]

ReadStores == {{}, {OldClick}, {OldClick, NewClick}}

ReadQueries ==
    { << >>,
      [from |-> toISOString([day |-> MaxDay, ms |-> 0])],
      [to |-> toISOString([day |-> 0, ms |-> EndOfDayMs])],
      [from |-> toISOString([day |-> 0 - (DefaultDays + 1), ms |-> MsPerSecond + 1]),
       to |-> toISOString([day |-> 0, ms |-> EndOfDayMs])] }

Repeaters == {1, 2}

InitReads ==
    /\ links = ReadLinks
    /\ clicks \in ReadStores
    /\ nextLinkId = 3
    /\ nextClickId = Cardinality(clicks) + 1
    /\ now = [day |-> 0, ms |-> 0]
    /\ proc = [p \in Procs |-> Idle]

NextReads ==
    \/ Tick
    \/ \E p \in Repeaters, op \in {"summary", "daily"}, id \in IdParams, query \in ReadQueries :
          Analytics(p, op, id, query)
    \/ \E p \in Procs : Summary(p)
    \/ \E p \in Procs : Daily(p)
    \/ \E p \in Procs : Respond(p)

SpecReads == InitReads /\ [][NextReads]_vars

\* Click recording: redirects on two slots, the seed script on the second
\* of them, over the links of InitAnalytics.
Visiting == {1, 2}

Seeding == {2}

NextClicks ==
    \/ Tick
    \/ \E p \in Visiting, slug \in RequestSlugs, headers \in Headers : Redirect(p, slug, headers)
    \/ \E p \in Procs : RecordClick(p)
    \/ \E p \in Seeding : SeedCount(p)
    \/ \E p \in Procs : SeedClearClicks(p)
    \/ \E p \in Procs : SeedClearLinks(p)
    \/ \E p \in Procs : SeedCreateLink(p)
    \/ \E p \in Procs : SeedCreateClick(p)
    \/ \E p \in Procs : SeedPreview(p)
    \/ \E p \in Procs : Respond(p)

SpecClicks == InitAnalytics /\ [][NextClicks]_vars

\* Concurrent visits: every slot serves one redirect request and keeps its
\* answer.
NextVisits ==
    \/ Tick
    \/ \E p \in Procs, slug \in RequestSlugs, headers \in Headers : Redirect(p, slug, headers)
    \/ \E p \in Procs : RecordClick(p)

SpecVisits == InitAnalytics /\ [][NextVisits]_vars

\* The whole service with the seed script: the API requests arrive on the
\* first slot, the redirects and the seed script on the second (the clock
\* stands still: no claim about what is kept in the store reads it).
ApiSlots == {1}

NextStore ==
    \/ \E p \in ApiSlots, body \in Bodies, bytes \in RandomBytes : CreateLink(p, body, bytes)
    \/ \E p \in Procs, bytes \in RandomBytes : InsertLink(p, bytes)
    \/ \E p \in Procs : InsertLinkFails(p)
    \/ \E p \in ApiSlots, order \in CreatedAtDesc(links) : List(p, order)
    \/ \E p \in ApiSlots, op \in {"summary", "daily"}, id \in IdParams : Analytics(p, op, id, << >>)
    \/ \E p \in Procs : Summary(p)
    \/ \E p \in Procs : Daily(p)
    \/ \E p \in Seeding, slug \in RequestSlugs, headers \in Headers : Redirect(p, slug, headers)
    \/ \E p \in Procs : RecordClick(p)
    \/ \E p \in Seeding : SeedCount(p)
    \/ \E p \in Procs : SeedClearClicks(p)
    \/ \E p \in Procs : SeedClearLinks(p)
    \/ \E p \in Procs : SeedCreateLink(p)
    \/ \E p \in Procs : SeedCreateClick(p)
    \/ \E p \in Procs : SeedPreview(p)
    \/ \E p \in Procs : Respond(p)

SpecStore == Init /\ [][NextStore]_vars

\* Validation of create-link requests: the bodies of the registry and
\* bodies whose targetUrl does not parse as a URL, whose slug is empty or
\* one character too long, or that are wrong in both fields.
NotAUrl == [protocol |-> "", rest |-> "example"]

LongSlug == [i \in 1..(MaxSlugLen + 1) |-> "a"]

ValidationBodies ==
    Bodies \cup [targetUrl : {NotAUrl}]
           \cup [targetUrl : {Url2}, slug : {<< >>, LongSlug}]
           \cup [targetUrl : {UrlJs}, slug : {<<"a">>}]

NextValidation ==
    \/ \E p \in Procs, body \in ValidationBodies, bytes \in RandomBytes :
          CreateLink(p, body, bytes)
    \/ \E p \in Procs, bytes \in RandomBytes : InsertLink(p, bytes)
    \/ \E p \in Procs : Respond(p)

SpecValidation == Init /\ [][NextValidation]_vars

\* Listing: create-link requests on the first slot and list requests on
\* the second while the clock runs, so that Links differ in createdAt.
Listing == {2}

NextList ==
    \/ Tick
    \/ \E p \in ApiSlots, body \in Bodies, bytes \in RandomBytes : CreateLink(p, body, bytes)
    \/ \E p \in Procs, bytes \in RandomBytes : InsertLink(p, bytes)
    \/ \E p \in Listing, order \in CreatedAtDesc(links) : List(p, order)
    \/ \E p \in Procs : Respond(p)

SpecList == Init /\ [][NextList]_vars

\* The journey of a link: create-link requests without a slug, then
\* redirects, then analytics requests on the link created first, while the
\* clock runs.  The API requests arrive on the first slot, the redirects
\* on the second.
JourneyBodies == [targetUrl : {Url1}]

JourneyIds == {1}

JourneyQueries ==
    { << >>,
      [to |-> toISOString([day |-> 0, ms |-> EndOfDayMs])],
      [from |-> toISOString([day |-> MaxDay, ms |-> 0])] }

NextJourney ==
    \/ Tick
    \/ \E p \in ApiSlots, body \in JourneyBodies, bytes \in RandomBytes :
          CreateLink(p, body, bytes)
    \/ \E p \in Procs, bytes \in RandomBytes : InsertLink(p, bytes)
    \/ \E p \in Visitors, slug \in RequestSlugs : Redirect(p, slug, << >>)
    \/ \E p \in Procs : RecordClick(p)
    \/ \E p \in Readers, op \in {"summary", "daily"}, id \in JourneyIds, query \in JourneyQueries :
          Analytics(p, op, id, query)
    \/ \E p \in Procs : Summary(p)
    \/ \E p \in Procs : Daily(p)
    \/ \E p \in Procs : Respond(p)

SpecJourney == Init /\ [][NextJourney]_vars

\* The link detail page in one browser tab, over the stores of InitReads
\* that no request writes; the user picks dates among PageDays.
Browsers == {1}

PageDays == {0 - DefaultDays, 0, MaxDay}

PageIds == {1}

NextDetail ==
    \/ \E p \in Browsers, id \in PageIds : OpenPage(p, id)
    \/ \E p \in Procs, day \in PageDays : ChangeFrom(p, day)
    \/ \E p \in Procs, day \in PageDays : ChangeTo(p, day)
    \/ \E p \in Procs, i \in 1..MaxFetches : FetchSettled(p, i)

SpecDetail == InitReads /\ [][NextDetail]_vars

\* ------------------------------------------------------------------ claims
\* the create-link requests that are past validation
Creates == {p \in Procs : proc[p].pc # "idle" /\ proc[p].op = "create"
                          /\ "attempts" \in DOMAIN proc[p]}

Finished(p) == proc[p].pc = "done"

\* p takes a step out of the insert state
InsertStep(p) == proc[p].pc = "insert" /\ proc'[p] # proc[p]

Supplied(p) == proc[p].userSlug # << >>

IsSlugTaken(resp) == resp.status = 409 /\ resp.code = "SLUG_TAKEN"

IsExhausted(resp) ==
    /\ resp.status = 500
    /\ resp.code = "INTERNAL"
    /\ resp.message = "Unable to generate unique slug after multiple attempts"

\* C1: in every reachable state at most one Link has any given slug.
C1_SlugUnique ==
    \A l1 \in links : \A l2 \in links : l1.slug = l2.slug => l1 = l2

\* C1 witness: two links are stored and a create request for a stored slug
\* has been turned away.
C1_Witness ==
    /\ Cardinality(links) = 2
    /\ \E p \in Creates : Finished(p) /\ proc[p].resp.status = 409

\* the requests racing for the custom slug s
Racers(s) == {p \in Creates : proc[p].userSlug = s}

Winners(s) == {p \in Racers(s) : Finished(p) /\ proc[p].resp.status = 201}

\* C2: when all the concurrent create-link calls for one custom slug have
\* completed and no other call stored that slug, exactly one of them has
\* succeeded and every other one has failed with SLUG_TAKEN (409).
C2_OneWinner ==
    \A s \in CustomSlugs :
        ( /\ Racers(s) # {}
          /\ \A p \in Racers(s) : Finished(p)
          /\ \A l \in links : l.slug = s =>
                \E p \in Winners(s) : proc[p].resp.link.id = l.id )
        => /\ Cardinality(Winners(s)) = 1
           /\ \A p \in Racers(s) \ Winners(s) : IsSlugTaken(proc[p].resp)

\* C2 witness: two calls with the same custom slug have both completed, one
\* with 201 and one with SLUG_TAKEN.
C2_Witness ==
    \E s \in CustomSlugs : \E p \in Racers(s) : \E q \in Racers(s) :
        /\ Finished(p) /\ Finished(q)
        /\ proc[p].resp.status = 201
        /\ proc[p].resp.link.slug = s
        /\ IsSlugTaken(proc[q].resp)

\* C3: an insert with a caller-supplied slug that a stored Link holds ends
\* the request with SLUG_TAKEN (409) after that single attempt; the slug
\* tried is the supplied one and nothing is stored.
C3_CustomConflict ==
    [][\A p \in Procs :
          ( /\ InsertStep(p)
            /\ Supplied(p)
            /\ \E l \in links : l.slug = proc[p].userSlug )
          => /\ proc'[p].pc = "done"
             /\ IsSlugTaken(proc'[p].resp)
             /\ Len(proc'[p].attempts) = 1
             /\ proc'[p].attempts[1].slug = proc[p].userSlug
             /\ links' = links]_vars

\* C3 witness: a request with a supplied slug has ended with SLUG_TAKEN and
\* the Link holding the slug is stored.
C3_Witness ==
    \E p \in Creates :
        /\ Finished(p)
        /\ Supplied(p)
        /\ IsSlugTaken(proc[p].resp)
        /\ \E l \in links : l.slug = proc[p].userSlug /\ l.slug = proc[p].attempts[1].slug

\* C4: a create-link request without a slug makes at most 4 insert attempts;
\* an attempt that collides stores nothing and, unless it is the 4th, is
\* followed by another attempt with a generated slug; the request fails
\* with the exhausted-retries error exactly when its 4th attempt collides,
\* i.e. when all 4 attempts have collided.
C4_RetryBudget ==
    [][\A p \in Procs :
          (InsertStep(p) /\ ~Supplied(p)) =>
            LET n == Len(proc[p].attempts) + 1
                taken == \E l \in links : l.slug = proc[p].slug
                exhausted == proc'[p].pc = "done" /\ IsExhausted(proc'[p].resp)
            IN /\ n <= 4
               /\ Len(proc'[p].attempts) = n
               /\ proc'[p].attempts[n] = [slug |-> proc[p].slug, conflict |-> taken]
               /\ exhausted <=> (taken /\ n = 4)
               /\ exhausted => \A i \in 1..4 : proc'[p].attempts[i].conflict
               /\ taken => links' = links
               /\ (taken /\ n < 4) =>
                     /\ proc'[p].pc = "insert"
                     /\ Len(proc'[p].generated) = n + 1
                     /\ proc'[p].slug = proc'[p].generated[n + 1]
               /\ ~taken => proc'[p].pc = "done" /\ proc'[p].resp.status = 201]_vars

\* C4 witness: a request without a slug has failed with the
\* exhausted-retries error after 4 colliding attempts.
C4_Witness ==
    \E p \in Creates :
        /\ Finished(p)
        /\ ~Supplied(p)
        /\ IsExhausted(proc[p].resp)
        /\ Len(proc[p].attempts) = 4

\* C5: when the first k generated slugs of a request have collided (k <= 3)
\* and the (k+1)-th generated slug is free at the (k+1)-th attempt, the
\* request succeeds and the Link stored and returned carries exactly the
\* (k+1)-th generated slug.
C5_GeneratedRetry ==
    [][\A p \in Procs :
          ( /\ InsertStep(p)
            /\ ~Supplied(p)
            /\ ~\E l \in links : l.slug = proc[p].generated[Len(proc[p].attempts) + 1] )
          => LET k == Len(proc[p].attempts)
                 g == proc[p].generated[k + 1]
             IN /\ k <= 3
                /\ \A i \in 1..k : /\ proc[p].attempts[i].conflict
                                   /\ proc[p].attempts[i].slug = proc[p].generated[i]
                /\ proc'[p].pc = "done"
                /\ proc'[p].resp.status = 201
                /\ proc'[p].resp.link.slug = g
                /\ proc'[p].resp.link.targetUrl = proc[p].targetUrl
                /\ links' = links \cup {proc'[p].resp.link}
                /\ proc'[p].resp.link \notin links]_vars

\* C5 witness: a request has collided on its first 2 generated slugs and
\* succeeded with the 3rd, which differs from the first two.
C5_Witness ==
    \E p \in Creates :
        /\ Finished(p)
        /\ ~Supplied(p)
        /\ Len(proc[p].attempts) = 3
        /\ proc[p].attempts[1].conflict
        /\ proc[p].attempts[2].conflict
        /\ proc[p].resp.status = 201
        /\ proc[p].resp.link.slug = proc[p].generated[3]
        /\ proc[p].generated[3] # proc[p].generated[2]
        /\ proc[p].resp.link \in links

\* an instant strictly before another, as epoch milliseconds compare
Before(a, b) == a.day < b.day \/ (a.day = b.day /\ a.ms < b.ms)

\* from <= t <= to
Within(t, from, to) == ~Before(t, from) /\ ~Before(to, t)

\* the instant an ISO-8601 string names
InstantOf(s) == [day |-> s.date, ms |-> (s.sec * 1000) + s.milli]

WellFormed(s) == s.sec \in 0..86399 /\ s.milli \in 0..999

IsAnalytics(r) == r.pc # "idle" /\ (r.op = "summary" \/ r.op = "daily")

\* p's request arrives
Arrival(p) == proc[p].pc = "idle" /\ proc'[p].pc # "idle"

\* p's request runs its aggregation query
QueryStep(p) == proc[p].pc = "query" /\ proc'[p] # proc[p]

\* the clicks of link id inside [from, to]
ClicksIn(id, from, to) ==
    {c \in clicks : c.linkId = id /\ Within(c.tsUtc, from, to)}

\* C6: a summary or daily request for an id that no stored Link has ends at
\* the existence check with 404 NOT_FOUND, whatever its from / to; it never
\* reaches the aggregation query and never answers 200.
C6_UnknownLink ==
    [][\A p \in Procs :
          ( /\ Arrival(p)
            /\ IsAnalytics(proc'[p])
            /\ ~\E l \in links : l.id = proc'[p].id )
          => /\ proc'[p].pc = "done"
             /\ proc'[p].resp.status = 404
             /\ proc'[p].resp.code = "NOT_FOUND"]_vars

\* C6 witness: a daily request with a well-formed range for an unknown id
\* has been answered 404 NOT_FOUND.
C6_Witness ==
    \E p \in Procs :
        /\ Finished(p)
        /\ proc[p].op = "daily"
        /\ ~\E l \in links : l.id = proc[p].id
        /\ DOMAIN proc[p].query = {"from", "to"}
        /\ WellFormed(proc[p].query.from) /\ WellFormed(proc[p].query.to)
        /\ ~Before(InstantOf(proc[p].query.to), InstantOf(proc[p].query.from))
        /\ proc[p].resp.status = 404
        /\ proc[p].resp.code = "NOT_FOUND"

\* a request names a well-formed range in order: each bound it names is a
\* well-formed datetime and, when it names both, from is not after to
OrderedQuery(q) ==
    /\ "from" \in DOMAIN q => WellFormed(q.from)
    /\ "to" \in DOMAIN q => WellFormed(q.to)
    /\ DOMAIN q = {"from", "to"} => ~Before(InstantOf(q.to), InstantOf(q.from))

\* C7: a summary or daily request for an existing link fails only when its
\* query is malformed or out of order (or a default bound puts it out of
\* order): with both bounds named, well-formed and from <= to it reaches
\* its aggregation query; and when no click of the link lies inside the
\* range the query answers 200 with total 0 (summary) or with the empty
\* sequence (daily).
C7_NoClicks ==
    [][\A p \in Procs :
          /\ ( /\ Arrival(p)
               /\ IsAnalytics(proc'[p])
               /\ \E l \in links : l.id = proc'[p].id
               /\ proc'[p].pc = "done" )
             => /\ proc'[p].resp.status # 404
                /\ ~OrderedQuery(proc'[p].query) \/ DOMAIN proc'[p].query # {"from", "to"}
          /\ ( /\ QueryStep(p)
               /\ ClicksIn(proc[p].id, proc[p].from, proc[p].to) = {} )
             => /\ proc'[p].pc = "done"
                /\ proc'[p].resp.status = 200
                /\ proc[p].op = "summary" => proc'[p].resp.total = 0
                /\ proc[p].op = "daily" => proc'[p].resp.body = << >>]_vars

\* C7 witness: daily has answered the empty sequence for a link that has a
\* click outside the range while another link has a click inside it.
C7_Witness ==
    \E p \in Procs :
        /\ Finished(p)
        /\ proc[p].op = "daily"
        /\ proc[p].resp.status = 200
        /\ proc[p].resp.body = << >>
        /\ \E c \in clicks : /\ c.linkId = proc[p].id
                             /\ ~Within(c.tsUtc, proc[p].from, proc[p].to)
        /\ \E c \in clicks : /\ c.linkId # proc[p].id
                             /\ Within(c.tsUtc, proc[p].from, proc[p].to)

\* C8: the summary query answers 200 with total equal to the number of
\* stored clicks of the link with from <= timestamp <= to, both bounds
\* inclusive.
C8_SummaryCount ==
    [][\A p \in Procs :
          (QueryStep(p) /\ proc[p].op = "summary")
          => /\ proc'[p].pc = "done"
             /\ proc'[p].resp.status = 200
             /\ proc'[p].resp.total =
                  Cardinality(ClicksIn(proc[p].id, proc[p].from, proc[p].to))]_vars

\* C8 witness: summary has answered 2 for a range from < to whose from is
\* the timestamp of one click of the link and whose to is the timestamp of
\* another.
C8_Witness ==
    \E p \in Procs :
        /\ Finished(p)
        /\ proc[p].op = "summary"
        /\ proc[p].resp.status = 200
        /\ proc[p].resp.total = 2
        /\ Before(proc[p].from, proc[p].to)
        /\ \E c \in clicks : c.linkId = proc[p].id /\ c.tsUtc = proc[p].from
        /\ \E c \in clicks : c.linkId = proc[p].id /\ c.tsUtc = proc[p].to

\* C9: every bucket {day, count} the daily query returns has count equal
\* to the number of the link's clicks whose UTC calendar date is day and
\* whose timestamp lies in [from, to].
C9_DailyCount ==
    [][\A p \in Procs :
          (QueryStep(p) /\ proc[p].op = "daily")
          => /\ proc'[p].pc = "done"
             /\ proc'[p].resp.status = 200
             /\ \A i \in 1..Len(proc'[p].resp.body) :
                   proc'[p].resp.body[i].count =
                     Cardinality({c \in ClicksIn(proc[p].id, proc[p].from, proc[p].to) :
                                    c.tsUtc.day = proc'[p].resp.body[i].day})]_vars

\* C9 witness: daily has returned a bucket of count 1 for a day on which
\* the link has a second click that the range bound leaves out.
C9_Witness ==
    \E p \in Procs :
        /\ Finished(p)
        /\ proc[p].op = "daily"
        /\ proc[p].resp.status = 200
        /\ \E i \in 1..Len(proc[p].resp.body) :
              /\ proc[p].resp.body[i].count = 1
              /\ \E c \in clicks : /\ c.linkId = proc[p].id
                                   /\ c.tsUtc.day = proc[p].resp.body[i].day
                                   /\ ~Within(c.tsUtc, proc[p].from, proc[p].to)

\* C10: the sequence daily returns is strictly ascending by day.
C10_DailySorted ==
    \A p \in Procs :
        (Finished(p) /\ proc[p].op = "daily" /\ proc[p].resp.status = 200)
        => \A i \in 1..Len(proc[p].resp.body) : \A j \in 1..Len(proc[p].resp.body) :
              i < j => proc[p].resp.body[i].day < proc[p].resp.body[j].day

\* C10 witness: daily has returned two buckets.
C10_Witness ==
    \E p \in Procs :
        /\ Finished(p)
        /\ proc[p].op = "daily"
        /\ proc[p].resp.status = 200
        /\ Len(proc[p].resp.body) >= 2

\* the days daily's answer lists
DaysOf(body) == {body[i].day : i \in 1..Len(body)}

\* C11: the days daily returns are exactly the UTC dates on which the link
\* has at least one click inside [from, to], and no bucket has count 0.
C11_NoEmptyBucket ==
    [][\A p \in Procs :
          (QueryStep(p) /\ proc[p].op = "daily")
          => /\ proc'[p].pc = "done"
             /\ proc'[p].resp.status = 200
             /\ DaysOf(proc'[p].resp.body) =
                  {c.tsUtc.day : c \in ClicksIn(proc[p].id, proc[p].from, proc[p].to)}
             /\ \A i \in 1..Len(proc'[p].resp.body) :
                   proc'[p].resp.body[i].count >= 1]_vars

\* C11 witness: daily has returned one bucket for a range that covers two
\* days, the link having a click inside the range on only one of them.
C11_Witness ==
    \E p \in Procs :
        /\ Finished(p)
        /\ proc[p].op = "daily"
        /\ proc[p].resp.status = 200
        /\ Len(proc[p].resp.body) = 1
        /\ proc[p].from.day <= 0
        /\ proc[p].to.day >= 1
        /\ \E d \in 0..1 : /\ d \notin DaysOf(proc[p].resp.body)
                           /\ ~\E c \in ClicksIn(proc[p].id, proc[p].from, proc[p].to) :
                                  c.tsUtc.day = d

\* the calls of normalizeRange that have returned or thrown
Normalized == {p \in Procs : proc[p].pc = "done" /\ proc[p].op = "normalize"}

\* 00:00:00.000 UTC of the day 30 days before the day of the instant t
ThirtyDaysEarlier(t) == [day |-> t.day - 30, ms |-> 0]

\* 23:59:59.999 UTC of the day of the instant t
EndOfDay(t) == [day |-> t.day, ms |-> 86399999]

\* C12: normalizeRange called with neither from nor to returns
\* to = 23:59:59.999 of the clock's UTC day and from = 00:00:00.000 UTC of
\* the day 30 days earlier, with from <= to, whatever the clock shows.
C12_RangeDefault ==
    \A p \in Normalized :
        proc[p].range = << >> =>
            /\ proc[p].result.ok
            /\ InstantOf(proc[p].result.toISO) = EndOfDay(proc[p].clock)
            /\ InstantOf(proc[p].result.fromISO) = ThirtyDaysEarlier(proc[p].clock)
            /\ ~Before(InstantOf(proc[p].result.toISO), InstantOf(proc[p].result.fromISO))

\* C12 witness: normalizeRange has returned the default range at noon.
C12_Witness ==
    \E p \in Normalized :
        /\ proc[p].range = << >>
        /\ proc[p].clock.ms = 43200000
        /\ proc[p].result.ok
        /\ InstantOf(proc[p].result.fromISO).ms = 0

\* the bounds a range resolves to at the instant t
ResolvedFrom(range, t) ==
    IF "from" \in DOMAIN range THEN InstantOf(range.from) ELSE ThirtyDaysEarlier(t)

ResolvedTo(range, t) ==
    IF "to" \in DOMAIN range THEN InstantOf(range.to) ELSE EndOfDay(t)

\* C13: normalizeRange throws its range-order error exactly when the
\* resolved from is strictly after the resolved to; otherwise (from = to
\* included) it returns the two resolved instants as they are.
C13_RangeOrder ==
    \A p \in Normalized :
        LET f == ResolvedFrom(proc[p].range, proc[p].clock)
            t == ResolvedTo(proc[p].range, proc[p].clock)
        IN IF Before(t, f)
           THEN /\ ~proc[p].result.ok
                /\ proc[p].result.message = "From date cannot be after to date"
           ELSE /\ proc[p].result.ok
                /\ InstantOf(proc[p].result.fromISO) = f
                /\ InstantOf(proc[p].result.toISO) = t

\* C13 witness: one call with from after to has thrown and one call with
\* from = to has returned that instant twice.
C13_Witness ==
    \E p \in Normalized : \E q \in Normalized :
        /\ DOMAIN proc[p].range = {"from", "to"}
        /\ Before(InstantOf(proc[p].range.to), InstantOf(proc[p].range.from))
        /\ ~proc[p].result.ok
        /\ DOMAIN proc[q].range = {"from", "to"}
        /\ proc[q].range.from = proc[q].range.to
        /\ proc[q].result.ok
        /\ InstantOf(proc[q].result.fromISO) = InstantOf(proc[q].result.toISO)

\* the failure kinds the other errors of the service carry
OtherKinds == {"NOT_FOUND", "VALIDATION_ERROR", "SLUG_TAKEN", "INTERNAL"}

\* C14: a summary or daily request for an existing link whose bounds are
\* well formed and resolve to from > to is answered with a failure whose
\* kind is none of NOT_FOUND, VALIDATION_ERROR and INTERNAL (the kind of
\* the unexpected errors), and not with the status of an internal error.
C14_InvalidRangeKind ==
    [][\A p \in Procs :
          ( /\ Arrival(p)
            /\ IsAnalytics(proc'[p])
            /\ \E l \in links : l.id = proc'[p].id
            /\ \A b \in DOMAIN proc'[p].query : WellFormed(proc'[p].query[b])
            /\ Before(ResolvedTo(proc'[p].query, now), ResolvedFrom(proc'[p].query, now)) )
          => /\ proc'[p].pc = "done"
             /\ proc'[p].resp.status >= 400
             /\ proc'[p].resp.status # 500
             /\ proc'[p].resp.code \notin OtherKinds]_vars

\* the analytics requests that have been answered
Answered == {p \in Procs : Finished(p) /\ IsAnalytics(proc[p])}

SameQuery(p, q) ==
    /\ proc[p].op = proc[q].op
    /\ proc[p].id = proc[q].id
    /\ proc[p].query = proc[q].query

\* C15 as stated: two answered requests with the same operation, link id
\* and from / to arguments (supplied or omitted), no write to either store
\* between them, have identical responses.
C15_IdempotentReads ==
    \A p \in Answered : \A q \in Answered :
        SameQuery(p, q) => proc[p].resp = proc[q].resp

\* C15 amended: the responses are identical when both from and to are
\* supplied, or when the two requests are handled on the same UTC day.
C15_IdempotentSameDay ==
    \A p \in Answered : \A q \in Answered :
        ( /\ SameQuery(p, q)
          /\ DOMAIN proc[p].query = {"from", "to"} \/ proc[p].day = proc[q].day )
        => proc[p].resp = proc[q].resp

\* C15 witness: the same summary query with both bounds supplied has been
\* answered on two different days, both times with the total 1, the click
\* counted being 30 days old at the first request.
C15_Witness ==
    \E p \in Answered : \E q \in Answered :
        /\ SameQuery(p, q)
        /\ proc[p].op = "summary"
        /\ DOMAIN proc[p].query = {"from", "to"}
        /\ proc[p].day = 0
        /\ proc[q].day = 1
        /\ proc[p].resp.status = 200
        /\ proc[p].resp.total = 1
        /\ proc[q].resp = proc[p].resp
        /\ \E c \in clicks : c.linkId = proc[p].id /\ c.tsUtc.day = 0 - 30

IsRedirect(r) == r.pc # "idle" /\ r.op = "redirect"

\* p's request makes its insert into Click
RecordStep(p) == proc[p].pc = "record" /\ proc'[p] # proc[p]

\* the User-Agent of a request, the empty string when it sends none
AgentOf(headers) ==
    IF "user-agent" \in DOMAIN headers THEN headers["user-agent"] ELSE ""

\* the step appends exactly one click, of link l and with the agent of p's
\* request, and leaves every stored click as it is
AppendsOne(p, l) ==
    \E c \in clicks' :
        /\ c \notin clicks
        /\ clicks' = clicks \cup {c}
        /\ \A d \in clicks : d.id # c.id
        /\ c.linkId = l.id
        /\ c.userAgent = AgentOf(proc[p].headers)

\* C16 as stated: a redirect request whose slug matches a stored Link goes
\* on to its insert, and the insert appends exactly one ClickEvent with
\* that Link's id and the request's User-Agent ("" when absent), changes
\* no other ClickEvent and answers 302 to the Link's targetUrl.
C16_OneClickPerRedirect ==
    [][\A p \in Procs :
          /\ ( /\ Arrival(p)
                /\ IsRedirect(proc'[p])
                /\ \E l \in links : l.slug = proc'[p].slug )
              => proc'[p].pc = "record"
          /\ RecordStep(p)
              => /\ AppendsOne(p, proc[p].link)
                 /\ proc'[p].resp.status = 302
                 /\ proc'[p].resp.location = proc[p].link.targetUrl]_vars

\* C16 amended: the same, provided the Link is still stored when the
\* insert is made; when it has been deleted since the lookup the insert
\* appends nothing, no ClickEvent changes and the request fails with 500.
C16_OneClickWhileStored ==
    [][\A p \in Procs :
          /\ ( /\ Arrival(p)
                /\ IsRedirect(proc'[p])
                /\ \E l \in links : l.slug = proc'[p].slug )
              => /\ proc'[p].pc = "record"
                 /\ proc'[p].link \in links
                 /\ proc'[p].link.slug = proc'[p].slug
          /\ RecordStep(p)
              => IF proc[p].link \in links
                 THEN /\ AppendsOne(p, proc[p].link)
                      /\ proc'[p].resp.status = 302
                      /\ proc'[p].resp.location = proc[p].link.targetUrl
                 ELSE /\ clicks' = clicks
                      /\ proc'[p].resp.status = 500]_vars

\* C16 witness: a request without a User-Agent header has been redirected
\* to the target of the stored link with its slug, and its click is stored
\* with the empty string as userAgent next to an older click.
C16_Witness ==
    \E p \in Procs :
        /\ Finished(p) /\ IsRedirect(proc[p])
        /\ proc[p].headers = << >>
        /\ proc[p].resp.status = 302
        /\ \E l \in links : /\ l.slug = proc[p].slug
                            /\ l.targetUrl = proc[p].resp.location
        /\ \E c \in clicks : /\ c.id = proc[p].clickId
                             /\ c.userAgent = ""
                             /\ \E d \in clicks : d.id < c.id

\* C17: a redirect request whose slug matches no stored Link is answered
\* 404 at the lookup and leaves the link and the click store unchanged.
C17_UnknownSlug ==
    [][\A p \in Procs :
          ( /\ Arrival(p)
            /\ IsRedirect(proc'[p])
            /\ ~\E l \in links : l.slug = proc'[p].slug )
          => /\ proc'[p].pc = "done"
             /\ proc'[p].resp.status = 404
             /\ links' = links
             /\ clicks' = clicks]_vars

\* C17 witness: a request for a slug no Link has was answered 404 while
\* both stores hold rows.
C17_Witness ==
    \E p \in Procs :
        /\ Finished(p) /\ IsRedirect(proc[p])
        /\ ~\E l \in links : l.slug = proc[p].slug
        /\ proc[p].resp.status = 404
        /\ links # {}
        /\ clicks # {}

\* the requests that have been redirected to link l
Redirected(l) ==
    {p \in Procs : /\ Finished(p) /\ IsRedirect(proc[p])
                    /\ proc[p].slug = l.slug
                    /\ proc[p].resp.status = 302}

\* C18: whatever the interleaving, the ClickEvents stored for a link are
\* exactly as many as the redirect requests for it that have completed
\* with 302 (no click was stored before the requests).
C18_NoLostClick ==
    \A l \in links :
        Cardinality({c \in clicks : c.linkId = l.id}) = Cardinality(Redirected(l))

\* C18 witness: two requests for one link, made at the same instant with
\* the same User-Agent, have both completed and the link has two clicks.
C18_Witness ==
    \E l \in links : \E p \in Redirected(l) : \E q \in Redirected(l) :
        /\ p # q
        /\ proc[p].headers = proc[q].headers
        /\ \E c \in clicks : \E d \in clicks :
              /\ c.id = proc[p].clickId /\ d.id = proc[q].clickId
              /\ c # d
              /\ c.tsUtc = d.tsUtc
        /\ Cardinality({c \in clicks : c.linkId = l.id}) = 2

\* the clicks a step stores
Stored == clicks' \ clicks

\* C19 as stated: every ClickEvent that any step stores carries the server
\* clock of that step as its timestamp.
C19_ClickTimeIsNow ==
    [][\A c \in Stored : c.tsUtc = now]_vars

\* C19 amended: a ClickEvent stored by a redirect request carries the
\* server clock of the insert; the only other step that stores ClickEvents
\* is the seed script's, whose timestamps lie in the days it generates,
\* the last of them the day the script read the clock.
C19_RedirectTimeIsNow ==
    [][\A c \in Stored :
          \/ /\ \E p \in Procs : RecordStep(p) /\ proc'[p].clickId = c.id
             /\ c.tsUtc = now
          \/ \E p \in Procs :
                /\ proc[p].pc = "createClicks"
                /\ proc'[p] # proc[p]
                /\ c.tsUtc.day <= proc[p].today.day
                /\ c.tsUtc.day > proc[p].today.day - SeedDays]_vars

\* C19 witness: a redirect has stored its click at the last millisecond of
\* day 1, the instant the clock showed.
C19_Witness ==
    \E p \in Procs :
        /\ Finished(p) /\ IsRedirect(proc[p])
        /\ proc[p].resp.status = 302
        /\ now = [day |-> 1, ms |-> 86399999]
        /\ \E c \in clicks : c.id = proc[p].clickId /\ c.tsUtc = now

\* the step is taken by a request of one of the API routes or a redirect
ServiceStep ==
    \E p \in Procs :
        /\ proc'[p] # proc[p]
        /\ \/ proc[p].pc # "idle" /\ proc[p].op \in {"create", "redirect", "list", "summary", "daily"}
           \/ proc[p].pc = "idle" /\ proc'[p].op \in {"create", "redirect", "list", "summary", "daily"}

\* the ClickEvent c is in the store after the step as it was before
Kept(c) == c \in clicks'

\* the ClickEvent c is gone after the step, no row with its id being left
Removed(c) == \A d \in clicks' : d.id # c.id

\* the step deletes the Link that owns c
OwnerDeleted(c) == \E l \in links : l.id = c.linkId /\ l \notin links'

\* C20 as stated: a stored ClickEvent stays as it is, except that it is
\* removed by the step that deletes its owning Link; the steps of
\* create-link, redirect, list, summary and daily requests keep every
\* stored ClickEvent.
C20_AppendOnly ==
    [][\A c \in clicks :
          /\ Kept(c) \/ (Removed(c) /\ OwnerDeleted(c))
          /\ ServiceStep => Kept(c)]_vars

\* C20 amended: a stored ClickEvent stays as it is, except that the reset
\* of the seed script removes it, either with all the ClickEvents in the
\* delete that comes right before its delete of all the Links, or by the
\* cascade of the latter; the steps of create-link, redirect, list,
\* summary and daily requests keep every stored ClickEvent.
C20_AppendOnlyButReset ==
    [][\A c \in clicks :
          /\ \/ Kept(c)
             \/ /\ Removed(c)
                /\ \E p \in Procs :
                      \/ /\ proc[p].pc = "clearClicks"
                         /\ proc'[p].pc = "clearLinks"
                         /\ clicks' = {}
                      \/ /\ proc[p].pc = "clearLinks"
                         /\ proc'[p] # proc[p]
                         /\ OwnerDeleted(c)
          /\ ServiceStep => Kept(c)]_vars

\* C20 witness: the seed script has run to its end over a store that held
\* the click of an earlier redirect: that click is gone with the reset,
\* the clicks stored since are all in the store, and a list request was
\* served.
C20_Witness ==
    \E p \in Procs : \E q \in Procs :
        /\ Finished(p)
        /\ proc[p].op = "seed"
        /\ proc[p].resp.exit = 0
        /\ clicks # {}
        /\ \A c \in clicks : c.id > 1
        /\ Cardinality(clicks) + 2 = nextClickId
        /\ Finished(q)
        /\ proc[q].op = "list"
        /\ Len(proc[q].resp.links) >= 1

\* C21: every stored ClickEvent's linkId is the id of a stored Link, also
\* after the Links have been deleted and after a redirect has found its
\* link deleted between its lookup and its insert.
C21_ClickHasLink ==
    \A c \in clicks : \E l \in links : l.id = c.linkId

\* C21 witness: a redirect that had found its link was answered 500
\* because the link was deleted before its insert; no Link has the slug
\* any more and the store holds the Links and ClickEvents created since.
C21_Witness ==
    \E p \in Procs :
        /\ Finished(p) /\ IsRedirect(proc[p])
        /\ proc[p].resp.status = 500
        /\ ~\E l \in links : l.slug = proc[p].slug
        /\ links # {}
        /\ clicks # {}

\* the Link l is in the store after the step with every field as before
LinkKept(l) == l \in links'

\* the Link l is gone after the step, no row with its id being left
LinkDeleted(l) == \A m \in links' : m.id # l.id

\* C22: a stored Link either stays in the store with its id, slug,
\* targetUrl and createdAt as they are or is deleted; the steps of
\* create-link (successful or failed), redirect, list, summary and daily
\* requests leave every stored Link as it is.
C22_LinkImmutable ==
    [][\A l \in links :
          /\ LinkKept(l) \/ LinkDeleted(l)
          /\ ServiceStep => LinkKept(l)]_vars

\* C22 witness: a create-link request for the slug of a stored Link has
\* failed with SLUG_TAKEN after a redirect to that Link was recorded; the
\* Link is stored as it was created.
C22_Witness ==
    \E p \in Creates :
        /\ Finished(p)
        /\ IsSlugTaken(proc[p].resp)
        /\ \E l \in links : /\ l.slug = proc[p].userSlug
                            /\ l.id = 1
                            /\ l.targetUrl.protocol = "https:"
                            /\ \E c \in clicks : c.linkId = l.id

\* C23: a list request is answered 200 with a sequence that holds every
\* stored Link exactly once and in which no Link comes before one that
\* was created later; over an empty store it is the empty sequence.
C23_ListOrder ==
    [][\A p \in Procs :
          (Arrival(p) /\ proc'[p].op = "list")
          => LET out == proc'[p].resp.links
             IN /\ proc'[p].pc = "done"
                /\ proc'[p].resp.status = 200
                /\ {out[i] : i \in 1..Len(out)} = links
                /\ Len(out) = Cardinality(links)
                /\ \A i \in 1..Len(out) : \A j \in 1..Len(out) :
                      Before(out[j].createdAt, out[i].createdAt) => i < j
                /\ links = {} => out = << >>]_vars

\* C23 witness: a list request was answered with two Links, the first of
\* them created after the second, and both are in the store.
C23_Witness ==
    \E p \in Procs :
        /\ Finished(p)
        /\ proc[p].op = "list"
        /\ Len(proc[p].resp.links) = 2
        /\ Before(proc[p].resp.links[2].createdAt, proc[p].resp.links[1].createdAt)
        /\ proc[p].resp.links[1].id > proc[p].resp.links[2].id
        /\ proc[p].resp.links[1] \in links
        /\ proc[p].resp.links[2] \in links

\* the sum of the counts of the buckets of a daily answer
RECURSIVE SumCounts(_)
SumCounts(body) ==
    IF body = << >> THEN 0 ELSE Head(body).count + SumCounts(Tail(body))

\* the link l is the only one created so far, without a slug, and the
\* range [from, to] covers the time from its creation up to now, hence
\* the timestamp of every click recorded on it
CoversJourney(l, from, to) ==
    /\ links = {l}
    /\ nextLinkId = 2
    /\ Len(l.slug) = 7
    /\ ~Before(l.createdAt, from)
    /\ ~Before(to, now)

\* C24: for a link created without a slug on which k redirects have been
\* recorded (k is the number of click ids handed out, the link being the
\* only one), a summary over a range covering the k timestamps answers
\* total = k, and daily answers buckets whose counts add up to k: none if
\* k = 0, one bucket of k if the clicks share a UTC day, otherwise one
\* bucket per distinct day.
C24_Journey ==
    [][\A p \in Procs : \A l \in links :
          ( /\ QueryStep(p)
            /\ l.id = proc[p].id
            /\ CoversJourney(l, proc[p].from, proc[p].to) )
          => LET k == nextClickId - 1
                 days == {c.tsUtc.day : c \in clicks}
             IN /\ proc'[p].resp.status = 200
                /\ proc[p].op = "summary" => proc'[p].resp.total = k
                /\ proc[p].op = "daily" =>
                      /\ SumCounts(proc'[p].resp.body) = k
                      /\ Len(proc'[p].resp.body) = Cardinality(days)
                      /\ DaysOf(proc'[p].resp.body) = days
                      /\ \A d \in days : days = {d} =>
                            proc'[p].resp.body = <<[day |-> d, count |-> k]>>]_vars

\* C24 witness: on the only link, created without a slug, two redirects
\* have been recorded on different days; daily, over a range that covers
\* both timestamps, has answered two buckets of count 1.
C24_Witness ==
    \E p \in Procs : \E l \in links :
        /\ links = {l}
        /\ Len(l.slug) = 7
        /\ nextClickId = 3
        /\ Finished(p) /\ proc[p].op = "daily" /\ proc[p].id = l.id
        /\ proc[p].resp.status = 200
        /\ Len(proc[p].resp.body) = 2
        /\ proc[p].resp.body[1].count = 1
        /\ proc[p].resp.body[2].count = 1
        /\ \A c \in clicks : /\ c.linkId = l.id
                              /\ Within(c.tsUtc, proc[p].from, proc[p].to)

\* C25: a summary or daily request for an existing link that names a from
\* or a to which is not a well-formed datetime ends on arrival with 400
\* VALIDATION_ERROR: it is not answered with the error of the range
\* normalization and never reaches the query that counts clicks.
C25_MalformedRange ==
    [][\A p \in Procs :
          ( /\ Arrival(p)
            /\ IsAnalytics(proc'[p])
            /\ \E l \in links : l.id = proc'[p].id
            /\ \E b \in DOMAIN proc'[p].query : ~WellFormed(proc'[p].query[b]) )
          => /\ proc'[p].pc = "done"
             /\ proc'[p].resp.status = 400
             /\ proc'[p].resp.code = "VALIDATION_ERROR"
             /\ proc'[p].resp.message = "Invalid date range parameters"]_vars

\* C25 witness: a summary request with a well-formed from and a malformed
\* to, for a link that has a click, has been answered 400
\* VALIDATION_ERROR.
C25_Witness ==
    \E p \in Procs :
        /\ Finished(p)
        /\ proc[p].op = "summary"
        /\ \E l \in links : l.id = proc[p].id
        /\ \E c \in clicks : c.linkId = proc[p].id
        /\ DOMAIN proc[p].query = {"from", "to"}
        /\ WellFormed(proc[p].query.from)
        /\ ~WellFormed(proc[p].query.to)
        /\ proc[p].resp.status = 400
        /\ proc[p].resp.code = "VALIDATION_ERROR"

\* the target uses the http or the https scheme
HttpTarget(u) == u.protocol = "http:" \/ u.protocol = "https:"

\* letters, digits, underscore and dash
SlugChars ==
    { "a","b","c","d","e","f","g","h","i","j","k","l","m",
      "n","o","p","q","r","s","t","u","v","w","x","y","z",
      "A","B","C","D","E","F","G","H","I","J","K","L","M",
      "N","O","P","Q","R","S","T","U","V","W","X","Y","Z",
      "0","1","2","3","4","5","6","7","8","9","_","-" }

\* 1 to 64 characters, each a letter, a digit, an underscore or a dash
SlugShape(s) == Len(s) \in 1..64 /\ \A i \in 1..Len(s) : s[i] \in SlugChars

\* the body of a create-link request is acceptable
BodyShape(body) ==
    /\ HttpTarget(body.targetUrl)
    /\ "slug" \in DOMAIN body => SlugShape(body.slug)

\* C26: a create-link request whose targetUrl is not http / https or
\* whose slug is not 1-64 characters of letters, digits, underscore or
\* dash ends on arrival with 400 VALIDATION_ERROR, before any insert, and
\* stores nothing; and every Link a step stores has an http / https
\* targetUrl and a slug of that shape.
C26_CreateValidation ==
    [][/\ \A p \in Procs :
            ( /\ Arrival(p)
              /\ proc'[p].op = "create"
              /\ ~BodyShape(proc'[p].body) )
            => /\ proc'[p].pc = "done"
               /\ proc'[p].resp.status = 400
               /\ proc'[p].resp.code = "VALIDATION_ERROR"
               /\ links' = links
       /\ \A l \in links' \ links :
            HttpTarget(l.targetUrl) /\ SlugShape(l.slug)]_vars

\* C26 witness: a request with an https target and a slug of 65 letters
\* and a request with a javascript: target have both been answered 400
\* VALIDATION_ERROR, next to a stored Link with a one-letter slug.
C26_Witness ==
    \E p \in Procs : \E q \in Procs :
        /\ Finished(p) /\ proc[p].op = "create"
        /\ "body" \in DOMAIN proc[p] /\ "slug" \in DOMAIN proc[p].body
        /\ HttpTarget(proc[p].body.targetUrl)
        /\ Len(proc[p].body.slug) = 65
        /\ proc[p].resp.status = 400
        /\ proc[p].resp.code = "VALIDATION_ERROR"
        /\ Finished(q) /\ proc[q].op = "create"
        /\ "body" \in DOMAIN proc[q]
        /\ proc[q].body.targetUrl.protocol = "javascript:"
        /\ proc[q].resp.status = 400
        /\ \E l \in links : Len(l.slug) = 1

\* C27: when a summary and a daily request for the same link have been
\* answered over the same range [from, to] and no click was stored
\* between the two queries, the counts of the daily buckets add up to the
\* total of the summary.
C27_DailySumsToTotal ==
    \A p \in Answered : \A q \in Answered :
        ( /\ proc[p].op = "summary" /\ proc[q].op = "daily"
          /\ proc[p].id = proc[q].id
          /\ proc[p].resp.status = 200 /\ proc[q].resp.status = 200
          /\ proc[p].from = proc[q].from
          /\ proc[p].to = proc[q].to )
        => SumCounts(proc[q].resp.body) = proc[p].resp.total

\* C27 witness: over the same range summary has answered total 2 and
\* daily two buckets, for a link whose two clicks are 30 days apart.
C27_Witness ==
    \E p \in Answered : \E q \in Answered :
        /\ proc[p].op = "summary" /\ proc[q].op = "daily"
        /\ proc[p].id = proc[q].id
        /\ proc[p].resp.status = 200 /\ proc[q].resp.status = 200
        /\ proc[p].from = proc[q].from
        /\ proc[p].to = proc[q].to
        /\ proc[p].resp.total = 2
        /\ Len(proc[q].resp.body) = 2
        /\ proc[q].resp.body[2].day - proc[q].resp.body[1].day = 30

\* the mounted link detail pages
Pages == {p \in Procs : proc[p].pc = "page"}

\* the clicks of the page's link inside the range its inputs show: from
\* 00:00:00.000 of the From day to 23:59:59.999 of the To day
Selected(p) ==
    ClicksIn(proc[p].id, [day |-> proc[p].fromDate, ms |-> 0],
                         [day |-> proc[p].toDate, ms |-> 86399999])

\* C28: when every request of a link detail page has completed and the
\* selected range is in order, the total and the daily series on display
\* are those of the selected range.
C28_LatestRangeShown ==
    \A p \in Pages :
        (proc[p].fetches = << >> /\ proc[p].fromDate <= proc[p].toDate)
        => /\ proc[p].totalClicks = Cardinality(Selected(p))
           /\ DaysOf(proc[p].dailyData) = {c.tsUtc.day : c \in Selected(p)}
           /\ SumCounts(proc[p].dailyData) = Cardinality(Selected(p))

RangeOrderError(result) ==
    ~result.ok /\ result.message = "From date cannot be after to date"

\* C29: normalizeRange called with only to takes as from 00:00:00.000 UTC
\* of the day 30 days before the clock's, whatever to is, and throws the
\* range-order error when to is earlier than that; called with only from
\* it takes as to 23:59:59.999 of the clock's day and throws the same
\* error when from is later than that.
C29_OneBoundDefault ==
    \A p \in Normalized :
        /\ DOMAIN proc[p].range = {"to"} =>
              IF Before(InstantOf(proc[p].range.to), ThirtyDaysEarlier(proc[p].clock))
              THEN RangeOrderError(proc[p].result)
              ELSE /\ proc[p].result.ok
                   /\ InstantOf(proc[p].result.fromISO) = ThirtyDaysEarlier(proc[p].clock)
                   /\ InstantOf(proc[p].result.toISO) = InstantOf(proc[p].range.to)
        /\ DOMAIN proc[p].range = {"from"} =>
              IF Before(EndOfDay(proc[p].clock), InstantOf(proc[p].range.from))
              THEN RangeOrderError(proc[p].result)
              ELSE /\ proc[p].result.ok
                   /\ InstantOf(proc[p].result.toISO) = EndOfDay(proc[p].clock)
                   /\ InstantOf(proc[p].result.fromISO) = InstantOf(proc[p].range.from)

\* C29 witness: a call with only a to of 31 days ago and a call with only
\* a from of tomorrow have both thrown the range-order error.
C29_Witness ==
    \E p \in Normalized : \E q \in Normalized :
        /\ DOMAIN proc[p].range = {"to"}
        /\ InstantOf(proc[p].range.to).day = proc[p].clock.day - 31
        /\ RangeOrderError(proc[p].result)
        /\ DOMAIN proc[q].range = {"from"}
        /\ InstantOf(proc[q].range.from).day = proc[q].clock.day + 1
        /\ RangeOrderError(proc[q].result)

\* p's create-link request takes a step: its arrival or a pass of its loop
CreateStep(p) ==
    /\ proc'[p] # proc[p]
    /\ \/ proc[p].pc = "idle" /\ proc'[p].op = "create"
       \/ proc[p].pc = "insert"

\* the step ends p's request with 201
Succeeds(p) == proc'[p].pc = "done" /\ proc'[p].resp.status = 201

\* C30: every step of a create-link request other than the insert that
\* answers 201 (a validation failure, a collision that is retried or ends
\* in SLUG_TAKEN or in the exhausted-retries error, a store error) leaves
\* the link store and the click store as they are; after a collision the
\* Link holding the slug is stored with the id and targetUrl it had.
C30_FailedCreateWritesNothing ==
    [][\A p \in Procs :
          (CreateStep(p) /\ ~Succeeds(p))
          => /\ links' = links
             /\ clicks' = clicks
             /\ ( /\ proc[p].pc = "insert"
                  /\ \E l \in links : l.slug = proc[p].slug )
                => \E l \in links : \E m \in links' :
                      /\ l.slug = proc[p].slug
                      /\ m.slug = l.slug
                      /\ m.id = l.id
                      /\ m.targetUrl = l.targetUrl]_vars

\* C30 witness: a request without a slug has failed with the
\* exhausted-retries error while the Link holding the slug it collided
\* with and a click of that Link are stored.
C30_Witness ==
    \E p \in Creates :
        /\ Finished(p)
        /\ IsExhausted(proc[p].resp)
        /\ \E l \in links : /\ l.slug = proc[p].attempts[4].slug
                            /\ \E c \in clicks : c.linkId = l.id

====
